---- MODULE Spec2Model ----
(***************************************************************************)
(* Snippetbox: the request handlers of cmd/web/handlers.go and the        *)
(* SnippetModel data-access object of pkg/models/mysql/snippets.go, over  *)
(* a snippets table and a clock (MySQL's UTC_TIMESTAMP()).                 *)
(*                                                                         *)
(* Strings that the code parses or formats (the id query parameter, the   *)
(* expires argument, the Location header) are sequences of one-character  *)
(* strings; every other string is an atom.  An error value is a string,   *)
(* NoErr is Go's nil error.  A pointer result is a sequence of length 0   *)
(* (nil) or 1.                                                             *)
(***************************************************************************)
EXTENDS Integers, Sequences, FiniteSets, TLC

VARIABLES
    rows,      \* the snippets table, in insertion order
    autoInc,   \* the table's AUTO_INCREMENT counter: the next id to assign
    now,       \* the storage clock, UTC_TIMESTAMP(), in ticks
    call,      \* the DAO call made at the current instant and its result
    req,       \* the request served at the current instant
    w,         \* the http.ResponseWriter of that request
    errorLog,  \* the lines app.errorLog received while serving it
    pc,        \* where main is: "openDB", "routes", "serving" or "exited"
    db,        \* what openDB returned: the pool ("open") or its error
    mux,       \* the http.ServeMux that app.routes() fills
    inflight   \* the requests being served at once, one per goroutine

vars ==
    <<rows, autoInc, now, call, req, w, errorLog, pc, db, mux, inflight>>

----------------------------------------------------------------------------
(* Bounds of the model *)

MaxRows == 2        \* rows the table may hold
MaxConc == 2        \* requests served at once
MaxNow == 8         \* the clock stops here
TicksPerDay == 1    \* resolution of the clock

----------------------------------------------------------------------------
(* Error values *)

NoErr == ""
ErrNoRecord == "models.ErrNoRecord"
sqlErrNoRows == "sql.ErrNoRows"
ErrBadConn == "driver: bad connection"
ErrScan == "sql: Scan error"
ErrNoLastInsertId == "LastInsertId is not supported by this driver"

\* What the connection pool can do to one statement.
ExecFaults == {NoErr, ErrBadConn}
IdFaults == {NoErr, ErrNoLastInsertId}
QueryFaults == {NoErr, ErrBadConn, ErrScan}

----------------------------------------------------------------------------
(* strconv.Atoi and the %d verb *)

Digits == <<"0", "1", "2", "3", "4", "5", "6", "7", "8", "9">>

IsDigit(c) == \E i \in 1..10 : Digits[i] = c

DigitVal(c) == (CHOOSE i \in 1..10 : Digits[i] = c) - 1

RECURSIVE DigitsVal(_)
DigitsVal(s) ==
    IF s = <<>> THEN 0
    ELSE 10 * DigitsVal(SubSeq(s, 1, Len(s) - 1)) + DigitVal(s[Len(s)])

\* strconv.Atoi: an optional sign, then one or more decimal digits.
Atoi(s) ==
    LET signed == s # <<>> /\ s[1] \in {"+", "-"}
        body == IF signed THEN Tail(s) ELSE s
    IN  IF body = <<>> \/ \E i \in DOMAIN body : ~IsDigit(body[i])
        THEN [val |-> 0, err |-> "strconv.Atoi: invalid syntax"]
        ELSE [val |-> IF signed /\ s[1] = "-" THEN 0 - DigitsVal(body)
                      ELSE DigitsVal(body),
              err |-> NoErr]

RECURSIVE NatToDigits(_)
NatToDigits(n) ==
    IF n < 10 THEN <<Digits[n + 1]>>
    ELSE NatToDigits(n \div 10) \o <<Digits[(n % 10) + 1]>>

\* fmt's %d of an int.
Itoa(n) == IF n < 0 THEN <<"-">> \o NatToDigits(0 - n) ELSE NatToDigits(n)

----------------------------------------------------------------------------
(* http.ResponseWriter *)

HeaderKeys == {"Allow", "Location", "Content-Type", "X-Content-Type-Options"}

NoHeader == [k \in HeaderKeys |-> <<>>]

\* A fresh writer: nothing set, no status committed (0), nothing written.
NewWriter ==
    [header |-> NoHeader, status |-> 0, sent |-> NoHeader,
     body |-> <<>>, events |-> <<>>]

\* w.Header().Set(k, v)
HeaderSet(rw, k, v) ==
    [rw EXCEPT !.header = [@ EXCEPT ![k] = v],
               !.events = Append(@, "header")]

\* w.WriteHeader(code): the first call commits the status and the header
\* map as it stands; a later call is ignored.
WriteHeader(rw, code) ==
    IF rw.status # 0 THEN rw
    ELSE [rw EXCEPT !.status = code, !.sent = rw.header,
                    !.events = Append(@, "status")]

\* w.Write(data): commits 200 first when no status was written.  A chunk
\* of body is a sequence of fields, a field a sequence of strings.
Write(rw, data) ==
    LET c == WriteHeader(rw, 200)
    IN  [c EXCEPT !.body = Append(@, data), !.events = Append(@, "body")]

StatusText(code) ==
    CASE code = 404 -> "Not Found"
      [] code = 405 -> "Method Not Allowed"
      [] code = 500 -> "Internal Server Error"
      [] code = 303 -> "See Other"
      [] OTHER -> "OK"

\* http.Error writing the status before it sets its headers.
HttpError_LateHeaders(rw, msg, code) ==
    LET h0 == WriteHeader(rw, code)
        h1 == HeaderSet(h0, "Content-Type", <<"text/plain; charset=utf-8">>)
        h2 == HeaderSet(h1, "X-Content-Type-Options", <<"nosniff">>)
    IN  Write(h2, <<<<msg>>>>)

\* http.Error(w, msg, code)
HttpError(rw, msg, code) ==
    LET h1 == HeaderSet(rw, "Content-Type", <<"text/plain; charset=utf-8">>)
        h2 == HeaderSet(h1, "X-Content-Type-Options", <<"nosniff">>)
    IN  Write(WriteHeader(h2, code), <<<<msg>>>>)

\* http.Redirect(w, r, url, code) for a request that is neither GET nor
\* HEAD: the Location header, then the status, no body.
HttpRedirect(rw, url, code) ==
    WriteHeader(HeaderSet(rw, "Location", url), code)

----------------------------------------------------------------------------
(* The application's helpers *)

\* app.clientError(w, status)
clientError(rw, status) == HttpError(rw, StatusText(status), status)

\* app.notFound(w)
notFound(rw) == clientError(rw, 404)

\* app.serverError(w, err): one line to the error log, an opaque 500.
serverError(rw, log, err) ==
    [w |-> HttpError(rw, StatusText(500), 500), log |-> Append(log, err)]

----------------------------------------------------------------------------
(* pkg/models/mysql: SnippetModel *)

\* The INSERT statement with the interval left out of expires.
InsertRow_NoInterval(inc, clk, title, content, expires) ==
    [id |-> inc, title |-> title, content |-> content, created |-> clk,
     expires |-> clk]

\* The row the INSERT statement stores: created = UTC_TIMESTAMP(),
\* expires = DATE_ADD(UTC_TIMESTAMP(), INTERVAL ? DAY), id from the counter.
\* The expires argument reaches the statement as a string of digits.
InsertRow(inc, clk, title, content, expires) ==
    [id |-> inc, title |-> title, content |-> content, created |-> clk,
     expires |-> clk + Atoi(expires).val * TicksPerDay]

\* The SELECT statement without the test of expires.
SelectLive_NoExpiry(tbl, clk, id) ==
    SelectSeq(tbl, LAMBDA r : r.id = id)

\* The SELECT statement with expires >= UTC_TIMESTAMP().
SelectLive_AtExpiry(tbl, clk, id) ==
    SelectSeq(tbl, LAMBDA r : r.expires >= clk /\ r.id = id)

\* The rows the SELECT statement of Get yields.
SelectLive(tbl, clk, id) ==
    SelectSeq(tbl, LAMBDA r : r.expires > clk /\ r.id = id)

\* row.Scan with the title and content destinations exchanged.
ScanSnippet_Swapped(r) ==
    [ID |-> r.id, Title |-> r.content, Content |-> r.title,
     Created |-> r.created, Expires |-> r.expires]

\* row.Scan into a zeroed models.Snippet
ScanSnippet(r) ==
    [ID |-> r.id, Title |-> r.title, Content |-> r.content,
     Created |-> r.created, Expires |-> r.expires]

\* Insert whose statement overwrites the newest row instead of adding one.
Insert_Replaces(tbl, inc, clk, title, content, expires, execFault, idFault) ==
    IF execFault # NoErr
    THEN [id |-> 0, err |-> execFault, fault |-> execFault,
          rows |-> tbl, autoInc |-> inc]
    ELSE LET row == InsertRow(inc, clk, title, content, expires)
             stored == IF tbl = <<>> THEN <<row>>
                       ELSE [tbl EXCEPT ![Len(tbl)] = row]
         IN  IF idFault # NoErr
             THEN [id |-> 0, err |-> idFault, fault |-> idFault,
                   rows |-> stored, autoInc |-> inc + 1]
             ELSE [id |-> inc, err |-> NoErr, fault |-> NoErr,
                   rows |-> stored, autoInc |-> inc + 1]

\* Insert returning the counter's next value instead of the id assigned.
Insert_NextId(tbl, inc, clk, title, content, expires, execFault, idFault) ==
    IF execFault # NoErr
    THEN [id |-> 0, err |-> execFault, fault |-> execFault,
          rows |-> tbl, autoInc |-> inc]
    ELSE LET stored == Append(tbl, InsertRow(inc, clk, title, content, expires))
         IN  IF idFault # NoErr
             THEN [id |-> 0, err |-> idFault, fault |-> idFault,
                   rows |-> stored, autoInc |-> inc + 1]
             ELSE [id |-> inc + 1, err |-> NoErr, fault |-> NoErr,
                   rows |-> stored, autoInc |-> inc + 1]

\* SnippetModel.Insert: what it returns, the error the storage raised
\* (fault) and what the table is afterwards.
Insert(tbl, inc, clk, title, content, expires, execFault, idFault) ==
    IF execFault # NoErr
    THEN [id |-> 0, err |-> execFault, fault |-> execFault,
          rows |-> tbl, autoInc |-> inc]
    ELSE LET stored == Append(tbl, InsertRow(inc, clk, title, content, expires))
         IN  IF idFault # NoErr
             THEN [id |-> 0, err |-> idFault, fault |-> idFault,
                   rows |-> stored, autoInc |-> inc + 1]
             ELSE [id |-> inc, err |-> NoErr, fault |-> NoErr,
                   rows |-> stored, autoInc |-> inc + 1]

\* m.DB.Exec(stmt, title, content, expires) as one statement of the
\* storage: the table afterwards, and the sql.Result with the id assigned.
ExecInsert(tbl, inc, clk, title, content, expires, execFault) ==
    IF execFault # NoErr
    THEN [err |-> execFault, insertId |-> 0, rows |-> tbl, autoInc |-> inc]
    ELSE [err |-> NoErr, insertId |-> inc,
          rows |-> Append(tbl, InsertRow(inc, clk, title, content, expires)),
          autoInc |-> inc + 1]

\* result.LastInsertId(): the id the sql.Result holds, or the driver's
\* error.
LastInsertId(insertId, idFault) ==
    IF idFault # NoErr THEN [id |-> 0, err |-> idFault]
    ELSE [id |-> insertId, err |-> NoErr]

\* Get handing on whatever row.Scan returned, sql.ErrNoRows included.
Get_RawError(tbl, clk, id, fault) ==
    LET live == SelectLive(tbl, clk, id)
        err == IF fault # NoErr THEN fault
               ELSE IF live = <<>> THEN sqlErrNoRows ELSE NoErr
    IN  IF err # NoErr THEN [s |-> <<>>, err |-> err, fault |-> fault]
        ELSE [s |-> <<ScanSnippet(live[1])>>, err |-> NoErr, fault |-> fault]

\* SnippetModel.Get: err is what row.Scan returned, fault the part of it
\* that the storage raised.
Get(tbl, clk, id, fault) ==
    LET live == SelectLive(tbl, clk, id)
        err == IF fault # NoErr THEN fault
               ELSE IF live = <<>> THEN sqlErrNoRows ELSE NoErr
    IN  IF err = sqlErrNoRows
        THEN [s |-> <<>>, err |-> ErrNoRecord, fault |-> fault]
        ELSE IF err # NoErr THEN [s |-> <<>>, err |-> err, fault |-> fault]
        ELSE [s |-> <<ScanSnippet(live[1])>>, err |-> NoErr, fault |-> fault]

\* SnippetModel.Latest: no statement is run; a nil slice, a nil error.
Latest == [list |-> <<>>, err |-> NoErr]

\* The record of one DAO call.
NoCall ==
    [op |-> "none", id |-> 0, title |-> "", content |-> "", expires |-> <<>>,
     s |-> <<>>, err |-> NoErr, fault |-> NoErr]

InsertCalled(title, content, expires, r) ==
    [op |-> "Insert", id |-> r.id, title |-> title, content |-> content,
     expires |-> expires, s |-> <<>>, err |-> r.err, fault |-> r.fault]

GetCalled(id, r) ==
    [op |-> "Get", id |-> id, title |-> "", content |-> "", expires |-> <<>>,
     s |-> r.s, err |-> r.err, fault |-> r.fault]

\* For Latest, s is the slice returned.
LatestCalled(r) ==
    [op |-> "Latest", id |-> 0, title |-> "", content |-> "", expires |-> <<>>,
     s |-> r.list, err |-> r.err, fault |-> NoErr]

----------------------------------------------------------------------------
(* cmd/web/handlers.go *)

\* fmt.Fprintf(w, "%v", s): the fields of the snippet, in order.
FormatSnippet(s) ==
    <<Itoa(s.ID), <<s.Title>>, <<s.Content>>, Itoa(s.Created), Itoa(s.Expires)>>

\* r.URL.Query().Get("id"): the empty string when the parameter is missing.
QueryGet(q) == IF q.has THEN q.val ELSE <<>>

snailTitle == "O snail"
snailContent == "O snail\nClimb Mount Fuji,\nBut slowly, slowly!\n\n- Kobayashi Issa"
snailExpires == <<"7">>

\* showSnippet without the ErrNoRecord branch: every DAO error is a 500.
showSnippet_NoRecordIs500(q, tbl, clk, fault) ==
    LET a == Atoi(QueryGet(q))
        wr == NewWriter
    IN  IF a.err # NoErr \/ a.val < 1
        THEN [w |-> notFound(wr), log |-> <<>>, call |-> NoCall]
        ELSE LET g == Get(tbl, clk, a.val, fault)
                 c == GetCalled(a.val, g)
             IN  IF g.err # NoErr
                 THEN LET e == serverError(wr, <<>>, g.err)
                      IN  [w |-> e.w, log |-> e.log, call |-> c]
                 ELSE [w |-> Write(wr, FormatSnippet(g.s[1])),
                       log |-> <<>>, call |-> c]

\* showSnippet answering a bad id with 400 where the handler answers 404.
showSnippet_BadIdIs400(q, tbl, clk, fault) ==
    LET a == Atoi(QueryGet(q))
        wr == NewWriter
    IN  IF a.err # NoErr \/ a.val < 1
        THEN [w |-> clientError(wr, 400), log |-> <<>>, call |-> NoCall]
        ELSE LET g == Get(tbl, clk, a.val, fault)
                 c == GetCalled(a.val, g)
             IN  IF g.err = ErrNoRecord
                 THEN [w |-> notFound(wr), log |-> <<>>, call |-> c]
                 ELSE IF g.err # NoErr
                 THEN LET e == serverError(wr, <<>>, g.err)
                      IN  [w |-> e.w, log |-> e.log, call |-> c]
                 ELSE [w |-> Write(wr, FormatSnippet(g.s[1])),
                       log |-> <<>>, call |-> c]

\* showSnippet testing id < 0 where the handler tests id < 1.
showSnippet_ZeroPasses(q, tbl, clk, fault) ==
    LET a == Atoi(QueryGet(q))
        wr == NewWriter
    IN  IF a.err # NoErr \/ a.val < 0
        THEN [w |-> notFound(wr), log |-> <<>>, call |-> NoCall]
        ELSE LET g == Get(tbl, clk, a.val, fault)
                 c == GetCalled(a.val, g)
             IN  IF g.err = ErrNoRecord
                 THEN [w |-> notFound(wr), log |-> <<>>, call |-> c]
                 ELSE IF g.err # NoErr
                 THEN LET e == serverError(wr, <<>>, g.err)
                      IN  [w |-> e.w, log |-> e.log, call |-> c]
                 ELSE [w |-> Write(wr, FormatSnippet(g.s[1])),
                       log |-> <<>>, call |-> c]

\* showSnippet sending the text of the storage error to the client.
showSnippet_LeaksError(q, tbl, clk, fault) ==
    LET a == Atoi(QueryGet(q))
        wr == NewWriter
    IN  IF a.err # NoErr \/ a.val < 1
        THEN [w |-> notFound(wr), log |-> <<>>, call |-> NoCall]
        ELSE LET g == Get(tbl, clk, a.val, fault)
                 c == GetCalled(a.val, g)
             IN  IF g.err = ErrNoRecord
                 THEN [w |-> notFound(wr), log |-> <<>>, call |-> c]
                 ELSE IF g.err # NoErr
                 THEN [w |-> HttpError(wr, g.err, 500), log |-> <<g.err>>,
                       call |-> c]
                 ELSE [w |-> Write(wr, FormatSnippet(g.s[1])),
                       log |-> <<>>, call |-> c]

\* showSnippet: the writer, the log and the DAO call it leaves behind.
showSnippet(q, tbl, clk, fault) ==
    LET a == Atoi(QueryGet(q))
        wr == NewWriter
    IN  IF a.err # NoErr \/ a.val < 1
        THEN [w |-> notFound(wr), log |-> <<>>, call |-> NoCall]
        ELSE LET g == Get(tbl, clk, a.val, fault)
                 c == GetCalled(a.val, g)
             IN  IF g.err = ErrNoRecord
                 THEN [w |-> notFound(wr), log |-> <<>>, call |-> c]
                 ELSE IF g.err # NoErr
                 THEN LET e == serverError(wr, <<>>, g.err)
                      IN  [w |-> e.w, log |-> e.log, call |-> c]
                 ELSE [w |-> Write(wr, FormatSnippet(g.s[1])),
                       log |-> <<>>, call |-> c]

\* createSnippet that does not look at the error of Insert.
createSnippet_IgnoresErr(method, tbl, inc, clk, execFault, idFault) ==
    LET wr == NewWriter
    IN  IF method # "POST"
        THEN [w |-> clientError(HeaderSet(wr, "Allow", <<"POST">>), 405),
              log |-> <<>>, call |-> NoCall, rows |-> tbl, autoInc |-> inc]
        ELSE LET r == Insert(tbl, inc, clk, snailTitle, snailContent,
                             snailExpires, execFault, idFault)
                 c == InsertCalled(snailTitle, snailContent, snailExpires, r)
             IN  [w |-> HttpRedirect(wr, <<"/snippet?id=">> \o Itoa(r.id), 303),
                  log |-> <<>>, call |-> c,
                  rows |-> r.rows, autoInc |-> r.autoInc]

\* createSnippet setting the Allow header after the status is written.
createSnippet_LateAllow(method, tbl, inc, clk, execFault, idFault) ==
    LET wr == NewWriter
    IN  IF method # "POST"
        THEN [w |-> HeaderSet(clientError(wr, 405), "Allow", <<"POST">>),
              log |-> <<>>, call |-> NoCall, rows |-> tbl, autoInc |-> inc]
        ELSE LET r == Insert(tbl, inc, clk, snailTitle, snailContent,
                             snailExpires, execFault, idFault)
                 c == InsertCalled(snailTitle, snailContent, snailExpires, r)
             IN  IF r.err # NoErr
                 THEN LET e == serverError(wr, <<>>, r.err)
                      IN  [w |-> e.w, log |-> e.log, call |-> c,
                           rows |-> r.rows, autoInc |-> r.autoInc]
                 ELSE [w |-> HttpRedirect(wr, <<"/snippet?id=">> \o Itoa(r.id), 303),
                       log |-> <<>>, call |-> c,
                       rows |-> r.rows, autoInc |-> r.autoInc]

\* createSnippet calling Insert before it looks at the method.
createSnippet_InsertsFirst(method, tbl, inc, clk, execFault, idFault) ==
    LET wr == NewWriter
        r == Insert(tbl, inc, clk, snailTitle, snailContent,
                    snailExpires, execFault, idFault)
        c == InsertCalled(snailTitle, snailContent, snailExpires, r)
    IN  IF method # "POST"
        THEN [w |-> clientError(HeaderSet(wr, "Allow", <<"POST">>), 405),
              log |-> <<>>, call |-> NoCall,
              rows |-> r.rows, autoInc |-> r.autoInc]
        ELSE IF r.err # NoErr
        THEN LET e == serverError(wr, <<>>, r.err)
             IN  [w |-> e.w, log |-> e.log, call |-> c,
                  rows |-> r.rows, autoInc |-> r.autoInc]
        ELSE [w |-> HttpRedirect(wr, <<"/snippet?id=">> \o Itoa(r.id), 303),
              log |-> <<>>, call |-> c,
              rows |-> r.rows, autoInc |-> r.autoInc]

\* createSnippet: the same, and the table afterwards.
createSnippet(method, tbl, inc, clk, execFault, idFault) ==
    LET wr == NewWriter
    IN  IF method # "POST"
        THEN [w |-> clientError(HeaderSet(wr, "Allow", <<"POST">>), 405),
              log |-> <<>>, call |-> NoCall, rows |-> tbl, autoInc |-> inc]
        ELSE LET r == Insert(tbl, inc, clk, snailTitle, snailContent,
                             snailExpires, execFault, idFault)
                 c == InsertCalled(snailTitle, snailContent, snailExpires, r)
             IN  IF r.err # NoErr
                 THEN LET e == serverError(wr, <<>>, r.err)
                      IN  [w |-> e.w, log |-> e.log, call |-> c,
                           rows |-> r.rows, autoInc |-> r.autoInc]
                 ELSE [w |-> HttpRedirect(wr, <<"/snippet?id=">> \o Itoa(r.id), 303),
                       log |-> <<>>, call |-> c,
                       rows |-> r.rows, autoInc |-> r.autoInc]

\* createSnippet as unnamed/part_000 has it: no helper, no storage.
createSnippet_000(method) ==
    IF method # "POST"
    THEN Write(WriteHeader(HeaderSet(NewWriter, "Allow", <<"POST">>), 405),
               <<<<"Method Not Allowed">>>>)
    ELSE Write(NewWriter, <<<<"Create a new snippet...">>>>)

\* createSnippet as unnamed/part_001 has it: the return after clientError
\* is inside the line's comment, so the handler goes on to the last write.
createSnippet_001(method) ==
    LET wr == IF method # "POST"
              THEN clientError(HeaderSet(NewWriter, "Allow", <<"POST">>), 405)
              ELSE NewWriter
    IN  Write(wr, <<<<"Create a new snippet...">>>>)

----------------------------------------------------------------------------
(* http.ServeMux.  A URL path is the sequence of the pieces between its   *)
(* slashes: "/" is <<"">>, "/snippet" is <<"snippet">>, "/static/" is     *)
(* <<"static", "">>, "//a/../b" is <<"", "a", "..", "b">>.                *)

Root == <<"">>

\* len of a piece between two slashes.
SegLen(seg) ==
    CASE seg = "" -> 0
      [] seg = "." -> 1
      [] seg = ".." -> 2
      [] seg = "foo" -> 3
      [] seg = "css" -> 3
      [] seg = "static" -> 6
      [] seg = "create" -> 6
      [] seg = "snippet" -> 7

\* len(path): one slash before every piece, and the pieces.
RECURSIVE PathLen(_)
PathLen(p) ==
    IF p = <<>> THEN 0 ELSE 1 + SegLen(Head(p)) + PathLen(Tail(p))

\* The path as it is written in a Location header.
RECURSIVE PathString(_)
PathString(p) ==
    IF p = <<>> THEN <<>>
    ELSE (IF Head(p) = "" THEN <<"/">> ELSE <<"/", Head(p)>>)
             \o PathString(Tail(p))

\* path.Clean: empty and "." pieces dropped, ".." dropping the piece
\* before it; done is the cleaned prefix, todo what is left to read.
RECURSIVE Clean(_, _)
Clean(done, todo) ==
    IF todo = <<>> THEN done
    ELSE IF Head(todo) \in {"", "."} THEN Clean(done, Tail(todo))
    ELSE IF Head(todo) = ".."
    THEN Clean(IF done = <<>> THEN <<>> ELSE SubSeq(done, 1, Len(done) - 1),
               Tail(todo))
    ELSE Clean(Append(done, Head(todo)), Tail(todo))

\* net/http cleanPath: path.Clean, the trailing slash put back.
cleanPath(p) ==
    LET c == Clean(<<>>, p)
        np == IF c = <<>> THEN Root ELSE c
    IN  IF p[Len(p)] = "" /\ np # Root THEN Append(np, "") ELSE np

\* A pattern ending in a slash names a subtree.
IsSubtree(pattern) == pattern[Len(pattern)] = ""

\* strings.HasPrefix(path, pattern) for a subtree pattern.
HasPrefix(p, pattern) ==
    /\ Len(p) >= Len(pattern)
    /\ \A i \in 1..(Len(pattern) - 1) : p[i] = pattern[i]

NewServeMux == [m |-> {}, es |-> <<>>]

\* appendSorted leaving the slice in the order of registration.
appendSorted_Unsorted(es, e) == Append(es, e)

\* appendSorted: the slice of subtree entries, longest pattern first.
appendSorted(es, e) ==
    LET shorter == {i \in DOMAIN es :
                       PathLen(es[i].pattern) < PathLen(e.pattern)}
        at == IF shorter = {} THEN Len(es) + 1
              ELSE CHOOSE i \in shorter : \A j \in shorter : i <= j
    IN  SubSeq(es, 1, at - 1) \o <<e>> \o SubSeq(es, at, Len(es))

\* mux.Handle(pattern, handler)
Handle(mx, pattern, handler) ==
    LET e == [pattern |-> pattern, handler |-> handler]
    IN  [m |-> mx.m \cup {e},
         es |-> IF IsSubtree(pattern) THEN appendSorted(mx.es, e) ELSE mx.es]

\* mux.match with the exact patterns matched as prefixes too.
match_AllPrefix(mx, p) ==
    LET hit == {e \in mx.m : e.pattern = p \/ HasPrefix(p, e.pattern)}
    IN  IF hit = {} THEN ""
        ELSE (CHOOSE e \in hit : \A f \in hit :
                  PathLen(f.pattern) <= PathLen(e.pattern)).handler

\* mux.match: an exact pattern first, then the first subtree entry that
\* is a prefix of the path; "" when there is none.
match(mx, p) ==
    LET exact == {e \in mx.m : e.pattern = p}
        sub == {i \in DOMAIN mx.es : HasPrefix(p, mx.es[i].pattern)}
    IN  IF exact # {} THEN (CHOOSE e \in exact : TRUE).handler
        ELSE IF sub # {}
        THEN mx.es[CHOOSE i \in sub : \A j \in sub : i <= j].handler
        ELSE ""

\* shouldRedirect that never asks for the slash.
shouldRedirect_Never(mx, p) == FALSE

\* mux.shouldRedirectRLocked: the path is not registered, the path with a
\* slash appended is.
shouldRedirect(mx, p) ==
    /\ \A e \in mx.m : e.pattern # p
    /\ \E e \in mx.m : e.pattern = Append(p, "")
    /\ p[Len(p)] # ""

Dispatched(name) == [redirect |-> FALSE, handler |-> name, url |-> <<>>]

Redirected(url) == [redirect |-> TRUE, handler |-> "", url |-> url]

\* mux.handler: the handler matched, NotFoundHandler when none is.
muxHandler(mx, p) ==
    LET h == match(mx, p)
    IN  Dispatched(IF h = "" THEN "NotFoundHandler" ELSE h)

\* ServeMux.Handler cleaning the path without redirecting to it.
Handler_NoCleanRedirect(mx, method, p) ==
    IF method = "CONNECT"
    THEN IF shouldRedirect(mx, p) THEN Redirected(Append(p, ""))
         ELSE muxHandler(mx, p)
    ELSE LET cp == cleanPath(p)
         IN  IF shouldRedirect(mx, cp) THEN Redirected(Append(cp, ""))
             ELSE muxHandler(mx, cp)

\* ServeMux.Handler: what serves the request, a registered handler or a
\* redirect to the path with a slash appended or to the cleaned path.
Handler(mx, method, p) ==
    IF method = "CONNECT"
    THEN IF shouldRedirect(mx, p) THEN Redirected(Append(p, ""))
         ELSE muxHandler(mx, p)
    ELSE LET cp == cleanPath(p)
         IN  IF shouldRedirect(mx, cp) THEN Redirected(Append(cp, ""))
             ELSE IF cp # p THEN Redirected(cp)
             ELSE muxHandler(mx, p)

\* http.Redirect(w, r, url, code) for any method: GET and HEAD get a
\* Content-Type, GET a short body as well.
Redirect(rw, method, url, code) ==
    LET h1 == HeaderSet(rw, "Location", url)
        h2 == IF method \in {"GET", "HEAD"}
              THEN HeaderSet(h1, "Content-Type", <<"text/html; charset=utf-8">>)
              ELSE h1
        h3 == WriteHeader(h2, code)
    IN  IF method = "GET" THEN Write(h3, <<<<"Moved Permanently">>>>) ELSE h3

\* The patterns app.routes() registers, and their handlers.
routes ==
    {[pattern |-> Root, handler |-> "home"],
     [pattern |-> <<"snippet">>, handler |-> "showSnippet"],
     [pattern |-> <<"snippet", "create">>, handler |-> "createSnippet"],
     [pattern |-> <<"static", "">>, handler |-> "fileServer"]}

----------------------------------------------------------------------------
(* main *)

\* openDB: sql.Open, then db.Ping; the pool, or nil and the error.
openDB(openFault, pingFault) ==
    IF openFault # NoErr THEN [db |-> "nil", err |-> openFault]
    ELSE IF pingFault # NoErr THEN [db |-> "nil", err |-> pingFault]
    ELSE [db |-> "open", err |-> NoErr]

\* main going on to serve whatever openDB returned.
mainAfterOpenDB_GoesOn(err) == "routes"

\* main after openDB: errorLog.Fatal(err) ends the process.
mainAfterOpenDB(err) == IF err # NoErr THEN "exited" ELSE "routes"

----------------------------------------------------------------------------
(* home *)

\* What template.ParseFiles and ts.Execute can do.
TemplateOutcomes ==
    {"ok", "ParseFiles error", "Execute error", "Execute error after output"}

\* home without the check of the path.
home_NoPathCheck(p, tmpl) ==
    IF tmpl = "ok"
    THEN [w |-> Write(NewWriter, <<<<"home page">>>>), log |-> <<>>]
    ELSE serverError(NewWriter, <<tmpl>>, tmpl)

\* home: the writer and the log it leaves behind.
home(p, tmpl) ==
    LET wr == NewWriter
    IN  IF p # Root THEN [w |-> notFound(wr), log |-> <<>>]
        ELSE IF tmpl = "ParseFiles error"
        THEN serverError(wr, <<tmpl>>, tmpl)
        ELSE IF tmpl = "Execute error"
        THEN serverError(wr, <<tmpl>>, tmpl)
        ELSE IF tmpl = "Execute error after output"
        THEN serverError(Write(wr, <<<<"home page, in part">>>>), <<tmpl>>, tmpl)
        ELSE [w |-> Write(wr, <<<<"home page">>>>), log |-> <<>>]

\* http.FileServer behind http.StripPrefix: the file, or 404.
fileServer(found) ==
    IF found THEN Write(NewWriter, <<<<"file">>>>)
    ELSE HttpError(NewWriter, "404 page not found", 404)

----------------------------------------------------------------------------
(* Inputs *)

\* The values of the id parameter tried: empty, not a number, below 1,
\* and the ids the table can hold, plain, signed and zero-padded.
IdStrings ==
    {<<>>, <<"a">>, <<"1", "a">>, <<"-">>, <<"0">>, <<"-", "1">>,
     <<"1">>, <<"2">>, <<"3">>, <<"+", "2">>, <<"0", "1">>, <<"1", "0">>}

\* The query strings tried: no id parameter, or one with such a value.
Queries ==
    {[has |-> FALSE, val |-> <<>>]}
        \cup {[has |-> TRUE, val |-> v] : v \in IdStrings}

Methods == {"GET", "POST", "PUT"}

\* What SnippetModel.Insert is called with: title, content, expires.
InsertArgs ==
    {<<snailTitle, snailContent, snailExpires>>,
     <<"Over the wintry", "forest, winds howl in rage", <<"7">>>>,
     <<"Over the wintry", snailContent, <<"1">>>>}

NoQuery == [has |-> FALSE, val |-> <<>>]

\* The request paths tried: the patterns, paths under and beside them,
\* and paths that path.Clean changes.
Paths ==
    {Root, <<"snippet">>, <<"snippet", "">>, <<"snippet", "create">>,
     <<"snippet", "create", "">>, <<"foo">>,
     <<"static">>, <<"static", "">>, <<"static", "css">>,
     <<"", "snippet">>, <<".", "snippet">>, <<"foo", "..", "snippet", "create">>,
     <<"static", "..">>, <<"foo", "..", "static">>, <<"static", "", "css">>}

\* The methods the routing is tried with; CONNECT is routed apart.
RouteMethods == {"GET", "POST", "CONNECT"}

NoReq ==
    [handler |-> "none", file |-> "", method |-> "", path |-> <<>>,
     query |-> NoQuery]

----------------------------------------------------------------------------
(* The state machine *)

\* The goroutines net/http serves requests on, one per connection.
Goroutines == 1..MaxConc

\* A goroutine of createSnippet: where it is (at), and its local
\* variables: the sql.Result's id, id and err of Insert, its writer and the
\* lines it logged.
Idle ==
    [at |-> "idle", method |-> "", insertId |-> 0, id |-> 0, err |-> NoErr,
     w |-> NewWriter, log |-> <<>>]

\* The process starts: main has not called openDB yet.
Init ==
    /\ rows = <<>>
    /\ autoInc = 1
    /\ now = 0
    /\ call = NoCall
    /\ req = NoReq
    /\ w = NewWriter
    /\ errorLog = <<>>
    /\ pc = "openDB"
    /\ db = "nil"
    /\ mux = NewServeMux
    /\ inflight = [g \in Goroutines |-> Idle]

\* main calls openDB and ends the process when it fails.
OpenDB ==
    \E openFault \in {NoErr, "sql.Open error"}, pingFault \in {NoErr, ErrBadConn} :
        LET r == openDB(openFault, pingFault)
        IN  /\ pc = "openDB"
            /\ db' = IF r.err # NoErr THEN r.err ELSE r.db
            /\ pc' = mainAfterOpenDB(r.err)
            /\ errorLog' = IF r.err # NoErr THEN <<r.err>> ELSE <<>>
            /\ UNCHANGED <<rows, autoInc, now, call, req, w, mux, inflight>>

\* app.routes() registers one more pattern, in whatever order.
Register ==
    \E e \in routes :
        /\ pc = "routes"
        /\ e \notin mux.m
        /\ mux' = Handle(mux, e.pattern, e.handler)
        /\ UNCHANGED <<rows, autoInc, now, call, req, w, errorLog, pc, db,
                       inflight>>

\* srv.ListenAndServe(): the server accepts requests, or the listener
\* cannot be opened and errorLog.Fatal ends the process.
ListenAndServe ==
    \E listenFault \in {NoErr, "listen: address already in use"} :
        /\ pc = "routes"
        /\ mux.m = routes
        /\ pc' = IF listenFault # NoErr THEN "exited" ELSE "serving"
        /\ errorLog' = IF listenFault # NoErr THEN <<listenFault>> ELSE <<>>
        /\ UNCHANGED <<rows, autoInc, now, call, req, w, db, mux, inflight>>

\* Time passes: the request served before is over, its writer is gone.
Tick ==
    /\ db = "open"
    /\ pc # "exited"
    /\ now < MaxNow
    /\ now' = now + 1
    /\ call' = NoCall
    /\ req' = NoReq
    /\ w' = NewWriter
    /\ errorLog' = <<>>
    /\ UNCHANGED <<rows, autoInc, pc, db, mux, inflight>>

\* GET /snippet served by showSnippet.
ShowSnippet ==
    /\ pc = "serving"
    /\ Handler(mux, "GET", <<"snippet">>) = Dispatched("showSnippet")
    /\ \E q \in Queries, fault \in QueryFaults :
        LET out == showSnippet(q, rows, now, fault)
        IN  /\ req' = [handler |-> "showSnippet", file |-> "handlers.go",
                       method |-> "GET", path |-> <<"snippet">>, query |-> q]
            /\ w' = out.w
            /\ errorLog' = out.log
            /\ call' = out.call
            /\ UNCHANGED <<rows, autoInc, now, pc, db, mux, inflight>>

\* A request to /snippet/create served by createSnippet.
CreateSnippet ==
    /\ pc = "serving"
    /\ Handler(mux, "POST", <<"snippet", "create">>)
           = Dispatched("createSnippet")
    /\ Len(rows) < MaxRows
    /\ \E m \in Methods, execFault \in ExecFaults, idFault \in IdFaults :
        LET out == createSnippet(m, rows, autoInc, now, execFault, idFault)
        IN  /\ req' = [handler |-> "createSnippet", file |-> "handlers.go",
                       method |-> m, path |-> <<"snippet", "create">>,
                       query |-> NoQuery]
            /\ w' = out.w
            /\ errorLog' = out.log
            /\ call' = out.call
            /\ rows' = out.rows
            /\ autoInc' = out.autoInc
            /\ UNCHANGED <<now, pc, db, mux, inflight>>

\* A request to /snippet/create served by the createSnippet of part_000.
CreateSnippet_000 ==
    \E m \in Methods :
        /\ pc = "serving"
        /\ req' = [handler |-> "createSnippet", file |-> "part_000",
                   method |-> m, path |-> <<"snippet", "create">>,
                   query |-> NoQuery]
        /\ w' = createSnippet_000(m)
        /\ errorLog' = <<>>
        /\ call' = NoCall
        /\ UNCHANGED <<rows, autoInc, now, pc, db, mux, inflight>>

\* A request to /snippet/create served by the createSnippet of part_001.
CreateSnippet_001 ==
    \E m \in Methods :
        /\ pc = "serving"
        /\ req' = [handler |-> "createSnippet", file |-> "part_001",
                   method |-> m, path |-> <<"snippet", "create">>,
                   query |-> NoQuery]
        /\ w' = createSnippet_001(m)
        /\ errorLog' = <<>>
        /\ call' = NoCall
        /\ UNCHANGED <<rows, autoInc, now, pc, db, mux, inflight>>

\* A request the mux hands to home.
Home ==
    \E m \in RouteMethods, p \in Paths :
        /\ pc = "serving"
        /\ Handler(mux, m, p) = Dispatched("home")
        /\ \E tmpl \in TemplateOutcomes :
            LET out == home(p, tmpl)
            IN  /\ req' = [handler |-> "home", file |-> "handlers.go",
                           method |-> m, path |-> p, query |-> NoQuery]
                /\ w' = out.w
                /\ errorLog' = out.log
                /\ call' = NoCall
                /\ UNCHANGED <<rows, autoInc, now, pc, db, mux, inflight>>

\* A request the mux hands to the file server.
Static ==
    \E m \in RouteMethods, p \in Paths, found \in BOOLEAN :
        /\ pc = "serving"
        /\ Handler(mux, m, p) = Dispatched("fileServer")
        /\ req' = [handler |-> "fileServer", file |-> "",
                   method |-> m, path |-> p, query |-> NoQuery]
        /\ w' = fileServer(found)
        /\ errorLog' = <<>>
        /\ call' = NoCall
        /\ UNCHANGED <<rows, autoInc, now, pc, db, mux, inflight>>

\* A request the mux answers itself, with a permanent redirect.
RedirectRequest ==
    \E m \in RouteMethods, p \in Paths :
        LET h == Handler(mux, m, p)
        IN  /\ pc = "serving"
            /\ h.redirect
            /\ req' = [handler |-> "RedirectHandler", file |-> "",
                       method |-> m, path |-> p, query |-> NoQuery]
            /\ w' = Redirect(NewWriter, m, PathString(h.url), 301)
            /\ errorLog' = <<>>
            /\ call' = NoCall
            /\ UNCHANGED <<rows, autoInc, now, pc, db, mux, inflight>>

\* A direct call of SnippetModel.Insert.
InsertCall ==
    \E args \in InsertArgs, execFault \in ExecFaults, idFault \in IdFaults :
        LET r == Insert(rows, autoInc, now, args[1], args[2], args[3],
                        execFault, idFault)
        IN  /\ db = "open"
            /\ Len(rows) < MaxRows
            /\ call' = InsertCalled(args[1], args[2], args[3], r)
            /\ rows' = r.rows
            /\ autoInc' = r.autoInc
            /\ UNCHANGED <<now, req, w, errorLog, pc, db, mux, inflight>>

\* A direct call of SnippetModel.Insert over a working storage, early
\* enough for the clock of the model to reach the expiry of the row.
InsertEarly ==
    \E args \in InsertArgs :
        LET r == Insert(rows, autoInc, now, args[1], args[2], args[3],
                        NoErr, NoErr)
        IN  /\ db = "open"
            /\ Len(rows) < MaxRows
            /\ r.rows[Len(r.rows)].expires <= MaxNow
            /\ call' = InsertCalled(args[1], args[2], args[3], r)
            /\ rows' = r.rows
            /\ autoInc' = r.autoInc
            /\ UNCHANGED <<now, req, w, errorLog, pc, db, mux, inflight>>

\* A direct call of SnippetModel.Get.
GetCall ==
    \E id \in 0..(MaxRows + 1), fault \in QueryFaults :
        /\ db = "open"
        /\ call' = GetCalled(id, Get(rows, now, id, fault))
        /\ UNCHANGED <<rows, autoInc, now, req, w, errorLog, pc, db, mux,
                       inflight>>

\* A direct call of SnippetModel.Latest.
LatestCall ==
    /\ db = "open"
    /\ call' = LatestCalled(Latest)
    /\ UNCHANGED <<rows, autoInc, now, req, w, errorLog, pc, db, mux,
                   inflight>>

\* The result of Insert this goroutine's createSnippet holds: id and err
\* are local variables of the handler.
insertResult_Shared(fl, g) == [id |-> fl[1].id, err |-> fl[1].err]

insertResult(fl, g) == [id |-> fl[g].id, err |-> fl[g].err]

\* createSnippet once Insert has returned: the 500, or the redirect.
createSnippetRespond(r) ==
    IF r.err # NoErr
    THEN serverError(NewWriter, <<>>, r.err)
    ELSE [w |-> HttpRedirect(NewWriter, <<"/snippet?id=">> \o Itoa(r.id), 303),
          log |-> <<>>]

\* A goroutine starts to serve a request to /snippet/create: a request
\* that is no POST is answered at once, a POST goes on to Insert.
ConcBegin(g) ==
    /\ pc = "serving"
    /\ Handler(mux, "POST", <<"snippet", "create">>)
           = Dispatched("createSnippet")
    /\ inflight[g].at \in {"idle", "done"}
    /\ \E m \in Methods :
           inflight' = [inflight EXCEPT ![g] =
               IF m # "POST"
               THEN [Idle EXCEPT !.at = "done", !.method = m,
                        !.w = clientError(
                                HeaderSet(NewWriter, "Allow", <<"POST">>), 405)]
               ELSE [Idle EXCEPT !.at = "Exec", !.method = m]]
    /\ UNCHANGED <<rows, autoInc, now, call, req, w, errorLog, pc, db, mux>>

\* The goroutine's INSERT statement runs in the storage.
ConcExec(g) ==
    /\ inflight[g].at = "Exec"
    /\ Len(rows) < MaxRows
    /\ \E execFault \in ExecFaults :
           LET r == ExecInsert(rows, autoInc, now, snailTitle, snailContent,
                               snailExpires, execFault)
           IN  /\ rows' = r.rows
               /\ autoInc' = r.autoInc
               /\ inflight' = [inflight EXCEPT ![g] =
                      IF r.err # NoErr
                      THEN [@ EXCEPT !.at = "respond", !.err = r.err]
                      ELSE [@ EXCEPT !.at = "LastInsertId",
                                     !.insertId = r.insertId]]
    /\ UNCHANGED <<now, call, req, w, errorLog, pc, db, mux>>

\* The goroutine reads the id from its sql.Result; Insert returns.
ConcLastInsertId(g) ==
    /\ inflight[g].at = "LastInsertId"
    /\ \E idFault \in IdFaults :
           LET r == LastInsertId(inflight[g].insertId, idFault)
           IN  inflight' = [inflight EXCEPT ![g] =
                   [@ EXCEPT !.at = "respond", !.id = r.id, !.err = r.err]]
    /\ UNCHANGED <<rows, autoInc, now, call, req, w, errorLog, pc, db, mux>>

\* The goroutine's createSnippet writes its response and returns.
ConcRespond(g) ==
    /\ inflight[g].at = "respond"
    /\ LET out == createSnippetRespond(insertResult(inflight, g))
       IN  inflight' = [inflight EXCEPT ![g] =
               [@ EXCEPT !.at = "done", !.w = out.w, !.log = out.log]]
    /\ UNCHANGED <<rows, autoInc, now, call, req, w, errorLog, pc, db, mux>>

\* The snippet pages: main starts the server, requests for snippets
\* arrive, time passes.
Next ==
    \/ OpenDB
    \/ Register
    \/ ListenAndServe
    \/ Tick
    \/ ShowSnippet
    \/ CreateSnippet
    \/ CreateSnippet_000
    \/ CreateSnippet_001

Spec == Init /\ [][Next]_vars

\* The DAO on its own, over an opened pool, called with any title,
\* content and expiry.
NextDAO == OpenDB \/ Tick \/ InsertCall \/ GetCall \/ LatestCall

SpecDAO == Init /\ [][NextDAO]_vars

\* The whole server at one instant: main starts it, and requests for any
\* path arrive.
NextServer ==
    \/ OpenDB
    \/ Register
    \/ ListenAndServe
    \/ Home
    \/ Static
    \/ RedirectRequest
    \/ ShowSnippet
    \/ CreateSnippet
    \/ CreateSnippet_000
    \/ CreateSnippet_001

SpecServer == Init /\ [][NextServer]_vars

\* The DAO with time that keeps advancing, up to the end of the clock.
NextExpiry == OpenDB \/ Tick \/ InsertEarly \/ GetCall

SpecExpiry == Init /\ [][NextExpiry]_vars /\ WF_vars(Tick)

\* Requests to /snippet/create served at once, their steps interleaved
\* in every way.
NextConc ==
    \/ OpenDB
    \/ Register
    \/ ListenAndServe
    \/ \E g \in Goroutines : ConcBegin(g)
    \/ \E g \in Goroutines : ConcExec(g)
    \/ \E g \in Goroutines : ConcLastInsertId(g)
    \/ \E g \in Goroutines : ConcRespond(g)

SpecConc == Init /\ [][NextConc]_vars

----------------------------------------------------------------------------
(* Properties *)

Last(seq) == seq[Len(seq)]

RowIds == {rows[i].id : i \in DOMAIN rows}

RowOf(id) == rows[CHOOSE i \in DOMAIN rows : rows[i].id = id]

\* The storage failed while serving the DAO call of this instant.
StorageFailed == call.fault # NoErr

\* The body written is exactly one formatted snippet with these fields.
BodyShows(rw, title, content) ==
    /\ Len(rw.body) = 1
    /\ \E i \in DOMAIN rw.body[1] : rw.body[1][i] = <<title>>
    /\ \E i \in DOMAIN rw.body[1] : rw.body[1][i] = <<content>>

\* C1 (first half): a POST to /snippet/create whose Insert succeeds is
\* answered with 303 and Location /snippet?id=N, N >= 1 the id of the row
\* just added, which holds the title and content inserted.
CreateRedirectsToNewRow ==
    (req.handler = "createSnippet" /\ req.method = "POST"
        /\ call.op = "Insert" /\ call.err = NoErr)
    => /\ w.status = 303
       /\ w.sent["Location"] = <<"/snippet?id=">> \o Itoa(call.id)
       /\ call.id >= 1
       /\ rows # <<>>
       /\ Last(rows).id = call.id
       /\ Last(rows).title = call.title
       /\ Last(rows).content = call.content

\* C1 (second half): a GET /snippet?id=N for the N of a stored row, served
\* before that row expires by a storage that answers, gets 200 and a body
\* with the row's title and content.
ShowAfterCreate ==
    \A i \in DOMAIN rows :
        (req.handler = "showSnippet" /\ req.query.has
            /\ req.query.val = Itoa(rows[i].id)
            /\ now < rows[i].expires /\ ~StorageFailed)
        => /\ w.status = 200
           /\ BodyShows(w, rows[i].title, rows[i].content)

\* C1: POST /snippet/create answers 303 with the Location of the new row,
\* and a later GET of that Location, before expiry, answers 200 with the
\* inserted title and content.
C1_CreateThenShow == CreateRedirectsToNewRow /\ ShowAfterCreate

\* A snippet created at an earlier instant is shown with 200.
C1_Witness ==
    /\ req.handler = "showSnippet"
    /\ w.status = 200
    /\ BodyShows(w, snailTitle, snailContent)
    /\ \E i \in DOMAIN rows :
          req.query.val = Itoa(rows[i].id) /\ rows[i].created < now

\* The values of the id parameter that are no integer of at least 1.
BadIdStrings ==
    {<<>>, <<"a">>, <<"1", "a">>, <<"-">>, <<"0">>, <<"-", "1">>}

BadId(q) == ~q.has \/ q.val \in BadIdStrings

\* C3: showSnippet answers 404 when the id parameter is missing, is no
\* integer or is below 1, with any table and a failing storage alike.
C3_BadIdIsNotFound ==
    (req.handler = "showSnippet" /\ BadId(req.query))
    => /\ w.status = 404
       /\ call = NoCall

\* id=0 answered 404 while the table holds rows.
C3_Witness ==
    /\ req.handler = "showSnippet"
    /\ req.query = [has |-> TRUE, val |-> <<"0">>]
    /\ rows # <<>>
    /\ w.status = 404

\* C4: every request to /snippet/create that is not a POST is answered
\* with 405 and the header Allow: POST.
C4_NonPostIs405 ==
    (req.handler = "createSnippet" /\ req.method # "POST")
    => /\ w.status = 405
       /\ w.sent["Allow"] = <<"POST">>

\* A PUT to /snippet/create answered 405 by the handler of handlers.go.
C4_Witness ==
    /\ req.handler = "createSnippet"
    /\ req.file = "handlers.go"
    /\ req.method = "PUT"
    /\ w.status = 405

----------------------------------------------------------------------------
(* Properties of the DAO *)

\* Some stored row has this id and expires strictly after the clock.
LiveRow(id) == \E i \in DOMAIN rows : rows[i].id = id /\ rows[i].expires > now

\* C2: Get(id) returns a snippet only for a stored row with that id whose
\* expires is strictly after the current time, and with a working storage
\* it returns one exactly then and ErrNoRecord in every other case.
C2_GetOnlyLive ==
    call.op = "Get"
    => /\ call.s # <<>> => LiveRow(call.id)
       /\ ~StorageFailed =>
            /\ LiveRow(call.id) => (call.s # <<>> /\ call.err = NoErr)
            /\ ~LiveRow(call.id) => (call.s = <<>> /\ call.err = ErrNoRecord)

\* Get answered ErrNoRecord for a stored row at the instant it expires.
C2_Witness ==
    /\ call.op = "Get"
    /\ call.err = ErrNoRecord
    /\ \E i \in DOMAIN rows : rows[i].id = call.id /\ rows[i].expires = now

SevenDays == 7 * TicksPerDay

\* C5: Insert(title, content, 7) followed at once by Get of the returned id
\* returns a snippet with that title and content whose expires is its
\* created plus 7 days (the storage answering the Get).
C5_RoundTrip ==
    [][(call.op = "Insert" /\ call.err = NoErr /\ call.expires = <<"7">>
            /\ call'.op = "Get" /\ call'.id = call.id /\ call'.fault = NoErr)
        => /\ call'.err = NoErr
           /\ Len(call'.s) = 1
           /\ call'.s[1].ID = call.id
           /\ call'.s[1].Title = call.title
           /\ call'.s[1].Content = call.content
           /\ call'.s[1].Expires = call'.s[1].Created + SevenDays]_vars

\* Get returned, at the instant of its insertion, a snippet inserted for 7
\* days with a title and content that differ.
C5_Witness ==
    /\ call.op = "Get"
    /\ Len(call.s) = 1
    /\ call.s[1].Title = "Over the wintry"
    /\ call.s[1].Content = "forest, winds howl in rage"
    /\ call.s[1].Created = now
    /\ call.s[1].Expires = now + SevenDays

\* C6: Get never returns sql.ErrNoRows: with no row the error is
\* ErrNoRecord, any other storage error is returned as raised, and with
\* an error no snippet is returned.
C6_GetErrors ==
    call.op = "Get"
    => /\ call.err # sqlErrNoRows
       /\ (call.fault = NoErr /\ ~LiveRow(call.id)) => call.err = ErrNoRecord
       /\ call.fault # NoErr => call.err = call.fault
       /\ call.err # NoErr => call.s = <<>>

\* Get met a storage error while a live row had the id asked for.
C6_Witness ==
    /\ call.op = "Get"
    /\ call.err = ErrScan
    /\ LiveRow(call.id)

\* The number of days an expires argument stands for.
DaysOf(expires) ==
    CASE expires = <<"1">> -> 1
      [] expires = <<"7">> -> 7

\* C7: a successful Insert(title, content, N) adds one row, created now and
\* expiring N days from now, keeps the rows there were, and returns the id
\* the storage gave the new row.
C7_InsertAddsOneRow ==
    [][(call'.op = "Insert" /\ call'.err = NoErr)
        => /\ Len(rows') = Len(rows) + 1
           /\ SubSeq(rows', 1, Len(rows)) = rows
           /\ rows'[Len(rows')] =
                [id |-> call'.id, title |-> call'.title,
                 content |-> call'.content, created |-> now,
                 expires |-> now + DaysOf(call'.expires) * TicksPerDay]
           /\ call'.id = autoInc
           /\ \A i \in DOMAIN rows : rows[i].id # call'.id]_vars

\* A 1-day snippet inserted, at a later instant, into a table with a row.
C7_Witness ==
    /\ call.op = "Insert"
    /\ call.err = NoErr
    /\ call.expires = <<"1">>
    /\ Len(rows) = 2
    /\ rows[1].created < now
    /\ rows[2].id = call.id

----------------------------------------------------------------------------
(* Properties of the handlers *)

\* C8: a row once stored stays stored, with the same id, title, content,
\* created and expires, whatever is requested and however late it is.
C8_RowsAreKept ==
    [][\A i \in DOMAIN rows : i \in DOMAIN rows' /\ rows'[i] = rows[i]]_vars

\* An expired row is still in the table, and asking for it gave 404.
C8_Witness ==
    /\ req.handler = "showSnippet"
    /\ w.status = 404
    /\ \E i \in DOMAIN rows :
          /\ req.query.val = Itoa(rows[i].id)
          /\ rows[i].expires < now
    /\ Len(rows) = 2

\* C9: for an id of at least 1 showSnippet calls Get and answers by what
\* it returns: a snippet gives 200 and the snippet in the body,
\* ErrNoRecord gives 404, any other error gives 500.
C9_ShowMapsDaoOutcome ==
    (req.handler = "showSnippet" /\ ~BadId(req.query))
    => /\ call.op = "Get"
       /\ call.id >= 1
       /\ call.err = NoErr =>
            /\ w.status = 200
            /\ Len(call.s) = 1
            /\ BodyShows(w, call.s[1].Title, call.s[1].Content)
       /\ call.err = ErrNoRecord => w.status = 404
       /\ call.err \notin {NoErr, ErrNoRecord} => w.status = 500

\* The three outcomes, each for the id of a stored row.
ShowOutcome(i, status) ==
    /\ req.handler = "showSnippet"
    /\ i \in DOMAIN rows
    /\ req.query.val = Itoa(rows[i].id)
    /\ w.status = status

\* 404 from ErrNoRecord for a stored row that has expired.
C9_Witness ==
    /\ ShowOutcome(1, 404)
    /\ call.err = ErrNoRecord

\* C10: when Insert returns an error, a POST to /snippet/create is answered
\* with 500, not 303, and no Location header is set.
C10_InsertErrorIs500 ==
    (req.handler = "createSnippet" /\ call.op = "Insert" /\ call.err # NoErr)
    => /\ w.status = 500
       /\ w.sent["Location"] = <<>>
       /\ w.header["Location"] = <<>>

\* A POST whose INSERT failed got 500.
C10_Witness ==
    /\ req.handler = "createSnippet"
    /\ req.method = "POST"
    /\ call.err = ErrBadConn
    /\ w.status = 500

----------------------------------------------------------------------------
(* Routing *)

\* The router's decisions in the state: for any method and path tried.
Routed(m, p) == Handler(mux, m, p)

\* p matches a registered pattern other than the root's: an exact pattern
\* letter for letter, or the file server's subtree.
MatchesOther(p) ==
    \/ p = <<"snippet">>
    \/ p = <<"snippet", "create">>
    \/ (Len(p) >= 2 /\ p[1] = "static")

\* C11: home answers 200 only for the path "/"; every other path that
\* matches no other pattern is dispatched to home and answered 404 there;
\* /snippet and /snippet/create are dispatched only for that very path.
C11_HomeOnlyAtRoot ==
    pc = "serving" =>
        /\ \A m \in RouteMethods, p \in Paths :
               LET h == Routed(m, p)
               IN  /\ h.handler = "showSnippet" => p = <<"snippet">>
                   /\ h.handler = "createSnippet" => p = <<"snippet", "create">>
                   /\ (~h.redirect /\ ~MatchesOther(p)) => h.handler = "home"
        /\ req.handler = "home" =>
               /\ ~MatchesOther(req.path)
               /\ req.path # Root => w.status = 404
               /\ w.status = 200 => req.path = Root

\* /snippet/ went to home and got 404.
C11_Witness ==
    /\ req.handler = "home"
    /\ req.path = <<"snippet", "">>
    /\ w.status = 404

\* The patterns of the mux that match p: an exact pattern the same as p, a
\* subtree pattern that p starts with.
Matching(p) ==
    {e \in mux.m : \/ e.pattern = p
                   \/ (IsSubtree(e.pattern) /\ HasPrefix(p, e.pattern))}

\* The handler of the longest of them.
LongestMatch(p) ==
    (CHOOSE e \in Matching(p) :
        \A f \in Matching(p) : PathLen(f.pattern) <= PathLen(e.pattern)).handler

\* The mux built in the order of the source.
SourceOrderMux ==
    Handle(Handle(Handle(Handle(NewServeMux,
        Root, "home"),
        <<"snippet">>, "showSnippet"),
        <<"snippet", "create">>, "createSnippet"),
        <<"static", "">>, "fileServer")

\* C12: once /, /snippet and /snippet/create are registered, in whatever
\* order, /snippet/create is dispatched to createSnippet; every dispatched
\* path goes to the handler of the longest pattern matching it, and the
\* finished mux decides as the one built in the order of the source does.
C12_LongestPatternWins ==
    ({e \in routes : e.handler # "fileServer"} \subseteq mux.m) =>
        /\ \A m \in RouteMethods :
               Routed(m, <<"snippet", "create">>) = Dispatched("createSnippet")
        /\ \A m \in RouteMethods, p \in Paths :
               ~Routed(m, p).redirect => Routed(m, p).handler = LongestMatch(p)
        /\ pc = "serving" =>
               \A m \in RouteMethods, p \in Paths :
                   Routed(m, p) = Handler(SourceOrderMux, m, p)

\* A snippet was created through /snippet/create on the finished mux.
C12_Witness ==
    /\ req.handler = "createSnippet"
    /\ req.file = "handlers.go"
    /\ req.path = <<"snippet", "create">>
    /\ w.status = 303
    /\ Len(mux.es) = 2
    /\ LongestMatch(<<"static", "css">>) = "fileServer"

\* p has a . or .. piece, or two separators in a row.
Unclean(p) ==
    \E i \in DOMAIN p : \/ p[i] \in {".", ".."}
                         \/ (i < Len(p) /\ p[i] = "")

\* p is a registered subtree pattern less its last separator, and no
\* pattern itself.
SlashMissing(p) ==
    /\ p[Len(p)] # ""
    /\ \E e \in mux.m : e.pattern = Append(p, "")
    /\ \A e \in mux.m : e.pattern # p

\* The 301 response that sends the client to the path url.
MovedTo(url) ==
    /\ w.status = 301
    /\ w.sent["Location"] = PathString(url)

C14_SubtreeSlashRedirect ==
    /\ \A m \in RouteMethods, p \in Paths :
           (SlashMissing(p) /\ ~Unclean(p))
           => Routed(m, p) = Redirected(Append(p, ""))
    /\ [pattern |-> <<"static", "">>, handler |-> "fileServer"] \in mux.m
       => SlashMissing(<<"static">>)
    /\ req.path = <<"static">> =>
           /\ req.handler = "RedirectHandler"
           /\ MovedTo(<<"static", "">>)
           /\ w.body # <<<<<<"home page">>>>>>

\* A CONNECT for /static was answered with 301 to /static/.
C14_Witness ==
    /\ req.method = "CONNECT"
    /\ req.path = <<"static">>
    /\ MovedTo(<<"static", "">>)

----------------------------------------------------------------------------
(* Latest *)

\* The number of snippets Latest is to return.
LatestLimit == 10

RECURSIVE Reverse(_)
Reverse(seq) ==
    IF seq = <<>> THEN <<>> ELSE Append(Reverse(Tail(seq)), Head(seq))

\* The live rows of the table at time clk, the most recent first, at most
\* LatestLimit of them, as snippets.
LatestLive(tbl, clk) ==
    LET live == Reverse(SelectSeq(tbl, LAMBDA r : r.expires > clk))
        n == IF Len(live) < LatestLimit THEN Len(live) ELSE LatestLimit
    IN  [i \in 1..n |-> ScanSnippet(live[i])]

\* C15: Latest returns the LatestLimit most recently created live
\* snippets, the most recent first, and fewer only when fewer are live.
C15_LatestTenLive ==
    call.op = "Latest" =>
        /\ call.err = NoErr
        /\ call.s = LatestLive(rows, now)

----------------------------------------------------------------------------
(* Startup *)

\* openDB has been called and returned an error.
OpenFailed == db \notin {"nil", "open"}

\* C16: once openDB has failed, the process has exited: the listener is
\* never started, no pattern is registered and no request is served, in
\* that step and in every later one.
C16_NoServingAfterFailedOpen ==
    [][OpenFailed' => /\ pc' = "exited"
                      /\ req' = NoReq
                      /\ mux' = NewServeMux
                      /\ ~OpenFailed]_vars

\* The ping failed and main ended the process with the error logged.
C16_Witness ==
    /\ db = ErrBadConn
    /\ pc = "exited"
    /\ errorLog = <<ErrBadConn>>
    /\ req = NoReq

----------------------------------------------------------------------------
(* Responses *)

\* home served "/" and the templates failed to load or to render.
TemplateFailed ==
    /\ req.handler = "home"
    /\ req.path = Root
    /\ errorLog # <<>>

\* C17: when template.ParseFiles or ts.Execute fails in home, the status
\* of the response is 500, also when Execute had written part of the page.
C17_TemplateFailureIs500 ==
    TemplateFailed => w.status = 500

\* The events of the response are headers set, then the one status, then
\* body writes.
HeadersStatusBody(ev) ==
    \E k \in DOMAIN ev :
        /\ ev[k] = "status"
        /\ \A i \in DOMAIN ev : i < k => ev[i] = "header"
        /\ \A i \in DOMAIN ev : i > k => ev[i] = "body"

\* C18: a response of home, showSnippet or createSnippet whose status is
\* not 200 was built in the order headers, status, body: nothing of the
\* body was written before the status, no header was set after it.
C18_HeadersThenStatusThenBody ==
    (req.handler \in {"home", "showSnippet", "createSnippet"} /\ w.status # 200)
    => /\ HeadersStatusBody(w.events)
       /\ w.sent = w.header

\* createSnippet refused a GET: Allow and the headers of the error, the
\* 405, then the text.
C18_Witness ==
    /\ req.handler = "createSnippet"
    /\ req.file = "handlers.go"
    /\ w.status = 405
    /\ w.events = <<"header", "header", "header", "status", "body">>

\* The response is an error response.
ErrorSent == w.status \in {404, 405, 500}

\* C19: once a handler has sent an error response it does nothing more
\* for the request: the body is the one text of the error, there is no
\* redirect, and a refused method has led to no DAO call.
C19_ErrorEndsResponse ==
    ErrorSent =>
        /\ Len(w.body) = 1
        /\ HeadersStatusBody(w.events)
        /\ w.sent["Location"] = <<>>
        /\ w.header["Location"] = <<>>
        /\ w.status = 405 => call = NoCall

\* What the client sees of a response.
ClientView(rw) == [status |-> rw.status, headers |-> rw.sent, body |-> rw.body]

\* The one response for a snippet that is not there.
NotFoundView ==
    [status |-> 404,
     headers |-> [k \in HeaderKeys |->
                    IF k = "Content-Type"
                    THEN <<"text/plain; charset=utf-8">>
                    ELSE IF k = "X-Content-Type-Options"
                    THEN <<"nosniff">>
                    ELSE <<>>],
     body |-> <<<<<<"Not Found">>>>>>]

\* The id asked for is no integer, is below 1, was never stored, or is
\* that of a row that has expired.
Unavailable(q) ==
    LET a == Atoi(QueryGet(q))
    IN  a.err # NoErr \/ a.val < 1 \/ ~LiveRow(a.val)

\* C20: with a working storage, showSnippet gives one and the same
\* response (status, headers, body) for every snippet that is unavailable,
\* whatever the reason: any two such runs look alike to the client.
C20_NotFoundLooksTheSame ==
    (req.handler = "showSnippet" /\ ~StorageFailed /\ Unavailable(req.query))
    => ClientView(w) = NotFoundView

\* The id of a stored row that has expired got that response.
C20_Witness ==
    /\ req.handler = "showSnippet"
    /\ \E i \in DOMAIN rows : /\ req.query.val = Itoa(rows[i].id)
                               /\ rows[i].expires <= now
    /\ ClientView(w) = NotFoundView

----------------------------------------------------------------------------
(* Errors and the log *)

\* showSnippet or createSnippet of handlers.go met an error of the
\* storage: the DAO returned an error other than ErrNoRecord.
StorageErrorMet ==
    /\ req.handler \in {"showSnippet", "createSnippet"}
    /\ req.file = "handlers.go"
    /\ call.op # "none"
    /\ call.err \notin {NoErr, ErrNoRecord}

\* The one response for an error of the server.
ServerErrorView ==
    [status |-> 500,
     headers |-> [k \in HeaderKeys |->
                    IF k = "Content-Type"
                    THEN <<"text/plain; charset=utf-8">>
                    ELSE IF k = "X-Content-Type-Options"
                    THEN <<"nosniff">>
                    ELSE <<>>],
     body |-> <<<<<<"Internal Server Error">>>>>>]

\* C21: a storage error met by showSnippet or createSnippet is in the
\* error log, and the client gets the one 500 response, the same for
\* every storage error.
C21_StorageErrorIsOpaque500 ==
    StorageErrorMet =>
        /\ \E i \in DOMAIN errorLog : errorLog[i] = call.err
        /\ ClientView(w) = ServerErrorView

\* A failed Scan in showSnippet: logged, and the plain 500 sent.
C21_Witness ==
    /\ req.handler = "showSnippet"
    /\ call.err = ErrScan
    /\ errorLog = <<ErrScan>>
    /\ ClientView(w) = ServerErrorView

\* home served "/" and did not get the whole page out: the templates
\* failed to load or to render.
HomeFailed ==
    /\ req.handler = "home"
    /\ req.path = Root
    /\ w.body # <<<<<<"home page">>>>>>

\* C22: for an unexpected error met while serving a request (a template
\* failure in home, a storage error in showSnippet or createSnippet)
\* exactly one line is written to the error log.
C22_OneLogLinePerError ==
    (HomeFailed \/ StorageErrorMet) => Len(errorLog) = 1

----------------------------------------------------------------------------
(* Requests served at once *)

\* The goroutine's POST has been answered after an Insert without error.
Created(g) ==
    /\ inflight[g].at = "done"
    /\ inflight[g].method = "POST"
    /\ inflight[g].err = NoErr

\* The goroutine's statement has stored a row.
Stored(g) == inflight[g].insertId # 0

\* Every goroutine that has answered has answered for its own request:
\* a redirect to the id of the row its own statement stored, which no
\* other goroutine's statement was given, the plain 500 for its own error,
\* the 405 for its own method.
OwnResponse ==
    \A g \in Goroutines :
        /\ Created(g) =>
               /\ inflight[g].w.status = 303
               /\ inflight[g].w.sent["Location"]
                      = <<"/snippet?id=">> \o Itoa(inflight[g].insertId)
               /\ inflight[g].insertId \in RowIds
               /\ \A h \in Goroutines \ {g} :
                      Stored(h) => inflight[h].insertId # inflight[g].insertId
        /\ (inflight[g].at = "done" /\ inflight[g].err # NoErr) =>
               /\ ClientView(inflight[g].w) = ServerErrorView
               /\ inflight[g].log = <<inflight[g].err>>
        /\ (inflight[g].at = "done" /\ inflight[g].method # "POST") =>
               /\ inflight[g].w.status = 405
               /\ ~Stored(g)

\* No two rows have one id.
DistinctIds ==
    \A i, j \in DOMAIN rows : rows[i].id = rows[j].id => i = j

\* A step adds a row exactly when one goroutine's statement has run
\* without error, and then it adds that one row, under the id the
\* goroutine's sql.Result holds.
OneRowPerStatement ==
    LET ran == {g \in Goroutines : /\ inflight[g].at = "Exec"
                                   /\ inflight'[g].at = "LastInsertId"}
    IN  IF ran = {}
        THEN rows' = rows
        ELSE /\ Cardinality(ran) = 1
             /\ Len(rows') = Len(rows) + 1
             /\ SubSeq(rows', 1, Len(rows)) = rows
             /\ \A g \in ran : rows'[Len(rows')].id = inflight'[g].insertId

\* C23: however the steps of requests served at once interleave, each
\* POST whose Insert succeeds adds exactly one row and is redirected to
\* the id of its own row, which no other request is given, and each
\* response is that of the goroutine's own request.
C23_ConcurrentCreates ==
    /\ [](OwnResponse /\ DistinctIds)
    /\ [][OneRowPerStatement]_vars

\* Goroutine 2 stored row 1 and has not read its id yet; meanwhile
\* goroutine 1 stored row 2 and was redirected to it.
C23_Witness ==
    /\ inflight[2].at = "LastInsertId"
    /\ inflight[2].insertId = 1
    /\ Created(1)
    /\ inflight[1].w.sent["Location"] = <<"/snippet?id=", "2">>

----------------------------------------------------------------------------
(* Effects on the storage *)

\* The step is a call of Insert by createSnippet that returned an error.
InsertFailedStep ==
    /\ req'.handler = "createSnippet"
    /\ call'.op = "Insert"
    /\ call'.err # NoErr

\* C24: a call of Insert that returns an error, answered with 500 by
\* createSnippet, leaves the table as it was, also when the statement ran
\* and the id could not be read from its result.
C24_FailedInsertStoresNothing ==
    [][InsertFailedStep => (rows' = rows /\ w'.status = 500)]_vars

\* The step is a POST to /snippet/create whose INSERT statement ran.
InsertRanStep ==
    /\ req'.handler = "createSnippet"
    /\ req'.file = "handlers.go"
    /\ req'.method = "POST"
    /\ call'.op = "Insert"
    /\ call'.fault \notin (ExecFaults \ {NoErr})

\* C25: the table changes only in a step that is a POST to
\* /snippet/create whose INSERT statement ran; every step of home, of
\* showSnippet, of the file server, of a redirect of the mux, and of
\* createSnippet for another method leaves the rows as they were.
C25_OnlyCreateWrites ==
    [][/\ rows' # rows => InsertRanStep
       /\ InsertRanStep => Len(rows') = Len(rows) + 1]_vars

\* A GET to /snippet/create was refused while the table held its row.
C25_Witness ==
    /\ req.handler = "createSnippet"
    /\ req.file = "handlers.go"
    /\ req.method = "GET"
    /\ w.status = 405
    /\ Len(rows) = 1

----------------------------------------------------------------------------
(* Expiry *)

\* The ids a row can have.
Ids == 1..MaxRows

\* Get(n) was called, the storage answered, and it returned the snippet.
Fetched(n) == call.op = "Get" /\ call.id = n /\ call.s # <<>>

\* Get(n) was called for a stored row and returned ErrNoRecord.
Refused(n) ==
    /\ call.op = "Get"
    /\ call.id = n
    /\ n \in RowIds
    /\ call.err = ErrNoRecord

\* Get of a stored row, the storage answering: the snippet at every time
\* before the row's expires, ErrNoRecord from expires onward.
GetFollowsExpiry ==
    (call.op = "Get" /\ ~StorageFailed /\ call.id \in RowIds) =>
        IF now < RowOf(call.id).expires
        THEN call.err = NoErr /\ Len(call.s) = 1 /\ call.s[1].ID = call.id
        ELSE call.err = ErrNoRecord /\ call.s = <<>>

\* C26: Get(n) returns the snippet before its expires and ErrNoRecord from
\* then on; once it has returned ErrNoRecord for a stored row it never
\* returns that snippet again; and as time advances every stored snippet
\* becomes unfetchable for good.
C26_ExpiryIsMonotonic ==
    /\ []GetFollowsExpiry
    /\ \A n \in Ids : [](Refused(n) => [](~Fetched(n)))
    /\ \A n \in Ids : [](n \in RowIds => <>[](~LiveRow(n)))

\* Get at the very tick of a row's expires returned ErrNoRecord.
C26_Witness ==
    /\ call.op = "Get"
    /\ call.id \in RowIds
    /\ now = RowOf(call.id).expires
    /\ call.err = ErrNoRecord

====
